---- MODULE Spec2Model ----
(***************************************************************************)
(* Voice Analyzer (src/app.py): a Streamlit script.  Every interaction     *)
(* re-executes the script top to bottom: it assembles the evidence from    *)
(* the uploads and the pasted text under two character caps, builds the    *)
(* prompt, and, when the run button was pressed, calls the model once and  *)
(* records the result in st.session_state.history.                         *)
(*                                                                         *)
(* Texts are sequences of one-character strings, so that strip, slicing    *)
(* and the truncation markers keep their real lengths.                     *)
(*                                                                         *)
(*   Spec         one execution of the script after another, step by step  *)
(*                (one loop iteration per step), history toggle off        *)
(*   SpecSession  whole executions as single steps, all settings free      *)
(*   SpecHistory  whole executions as single steps, long histories         *)
(*   SpecGateway  whole executions as single steps, every response shape   *)
(***************************************************************************)
EXTENDS Integers, Sequences, FiniteSets, TLC

\* ------------------------------------------------------------------ bounds
MaxUploads == 2       \* files in one upload list (Spec)
MaxLen == 2           \* longest run of letters in a raw text
MaxCap == 2           \* largest value of either character cap
MaxRuns == 2          \* script executions in one session (SpecSession)
MaxHistoryRuns == 11  \* script executions in one session (SpecHistory)

\* ------------------------------------------------------- program constants
HISTORY_VIEW == 10

\* ------------------------------------------------------------------ strings
Whitespace == {" ", "\n", "\t"}

Min(a, b) == IF a < b THEN a ELSE b

\* text[:n] for n >= 0
Take(s, n) == SubSeq(s, 1, Min(n, Len(s)))

RECURSIVE LStrip(_)
LStrip(s) == IF s # <<>> /\ Head(s) \in Whitespace THEN LStrip(Tail(s)) ELSE s

RECURSIVE RStrip(_)
RStrip(s) ==
  IF s # <<>> /\ s[Len(s)] \in Whitespace THEN RStrip(SubSeq(s, 1, Len(s) - 1)) ELSE s

\* str.strip()
Strip(s) == RStrip(LStrip(s))

\* s.endswith(suffix)
EndsWith(s, suffix) ==
  /\ Len(suffix) <= Len(s)
  /\ SubSeq(s, Len(s) - Len(suffix) + 1, Len(s)) = suffix

\* "\n\n[TRUNCATED]"
TRUNCATED == <<"\n", "\n", "[", "T", "R", "U", "N", "C", "A", "T", "E", "D", "]">>

\* "\n\n[TRUNCATED_BY_TOTAL_LIMIT]"
TRUNCATED_BY_TOTAL_LIMIT ==
  <<"\n", "\n", "[", "T", "R", "U", "N", "C", "A", "T", "E", "D", "_", "B", "Y",
    "_", "T", "O", "T", "A", "L", "_", "L", "I", "M", "I", "T", "]">>

clamp_text(text, max_chars) ==
  LET t == Strip(text) IN
  IF max_chars <= 0 THEN <<>>
  ELSE IF Len(t) > max_chars THEN Take(t, max_chars) \o TRUNCATED
  ELSE t

\* ------------------------------------------------------------------ inputs
As(n) == [i \in 1..n |-> "a"]

\* raw texts: n letters, a blank one and a padded one
Texts == {As(n) : n \in 0..MaxLen} \cup {<<" ">>, <<" ", "a", " ">>}

\* An uploaded file: its extension, whether its parser/decoder accepts the
\* bytes, and the text its bytes hold.  A file's name is its position in the
\* upload list.
ImageFiles == {[ext |-> "png", decodes |-> d, text |-> <<>>] : d \in BOOLEAN}
PlainFiles == {[ext |-> "txt", decodes |-> TRUE, text |-> t] : t \in Texts}
PdfFiles == {[ext |-> "pdf", decodes |-> FALSE, text |-> <<>>]}
Files == ImageFiles \cup PlainFiles \cup PdfFiles

SeqsUpTo(S, n) == UNION {[1..k -> S] : k \in 0..n}

Caps == 1..MaxCap

ApiKeys == {<<>>, <<" ">>, <<"k">>}

None == "None"

\* A response object of the model service, as far as the gateway looks at it:
\* its `text` accessor and its candidate list.  The accessor is absent (no
\* such attribute), raises an error other than AttributeError (the client
\* library's accessor does so for a response without valid text), or gives
\* None or a string.  The candidate list is absent or a list of candidates,
\* each a list of parts; a part's `text` is absent or a string.
ABSENT == "<absent>"
RAISES == "<raises>"

TextAccessors == {ABSENT, RAISES, None, "", "voice spec"}
PartTexts == {ABSENT, "", "candidate text"}
PartLists == {<<>>} \cup {<<[text |-> p]>> : p \in PartTexts}
CandidateLists == {<<>>} \cup {<<[parts |-> ps]>> : ps \in PartLists}

Responses ==
  {[text |-> t, has_candidates |-> FALSE, candidates |-> <<>>] : t \in TextAccessors}
    \cup {[text |-> t, has_candidates |-> TRUE, candidates |-> c] :
             t \in TextAccessors, c \in CandidateLists}

\* a response with its text directly available
TextResponse(t) == [text |-> t, has_candidates |-> FALSE, candidates |-> <<>>]

\* a response whose only text is an empty first part
EmptyResponse ==
  [text |-> "", has_candidates |-> TRUE, candidates |-> <<[parts |-> <<[text |-> ""]>>]>>]

\* What the model service does with a request: the client library is missing,
\* the service raises, or it returns a response.
Outcomes ==
  {[kind |-> "no_client", resp |-> <<>>], [kind |-> "raises", resp |-> <<>>],
   [kind |-> "returns", resp |-> <<EmptyResponse>>],
   [kind |-> "returns", resp |-> <<TextResponse("voice spec")>>]}

\* the same, with every response shape
GatewayOutcomes == {[kind |-> "returns", resp |-> <<r>>] : r \in Responses}

VARIABLES
  uploads, pasted, max_chars_per_file, max_total_chars,  \* widget values
  run, api_key, save_history,                            \* widget values
  pc, idx,                                               \* position in the script
  sample_blocks, images, report_lines, total_chars,      \* script variables
  remaining, paste_txt, attachments_report, prompt_text, \* script variables
  history, now,                                          \* session state, clock
  request, calls, response, call_output,                 \* the call
  error, shown, downloads, view                          \* the page

widgets == <<uploads, pasted, max_chars_per_file, max_total_chars>>
buttons == <<run, api_key, save_history>>
locals == <<sample_blocks, images, report_lines, total_chars, remaining,
            paste_txt, attachments_report, prompt_text>>
page == <<request, calls, response, call_output, error, shown, downloads, view>>
vars == <<widgets, buttons, pc, idx, locals, history, now, page>>

\* ------------------------------------------------------------ extractors
extract_text_from_plain_bytes(f, max_chars) == clamp_text(f.text, max_chars)

extract_text_from_pdf_bytes(f, max_chars) ==
  IF ~f.decodes THEN <<>> ELSE clamp_text(f.text, max_chars)

load_image_from_bytes(f, i) == IF f.decodes THEN <<"image", i>> ELSE None

IsImageExtNoPng(f) == f.ext \in {"jpg", "jpeg", "webp"}

IsImageExt(f) == f.ext \in {"png", "jpg", "jpeg", "webp"}

\* the extractor dispatch on the extension
Extract(f, max_chars) ==
  IF f.ext = "pdf" THEN extract_text_from_pdf_bytes(f, max_chars)
  ELSE extract_text_from_plain_bytes(f, max_chars)

\* ------------------------------------------------------ evidence assembly
Line(tag, file, chars) == [tag |-> tag, file |-> file, chars |-> chars]

NO_ATTACHMENTS == Line("no_attachments", 0, 0)

\* the script's variables before the loop
EmptyPass ==
  [sample_blocks |-> <<>>, images |-> <<>>, report_lines |-> <<>>,
   total_chars |-> 0, remaining |-> 0, paste_txt |-> <<>>]

OverBudgetStrict(rem) == rem < 0

OverBudget(rem) == rem <= 0

\* the cut of the input that crosses the total cap
CutToTotal(extracted, rem) ==
  IF Len(extracted) > rem THEN Take(extracted, rem) \o TRUNCATED_BY_TOTAL_LIMIT
  ELSE extracted

\* one iteration of the loop over the uploads, for file f at position i
UploadBody(a, f, i, per_file, total) ==
  IF IsImageExt(f) THEN
    LET img == load_image_from_bytes(f, i) IN
    IF img # None
    THEN [a EXCEPT !.images = Append(@, img),
                   !.report_lines = Append(@, Line("image_attached", i, 0))]
    ELSE [a EXCEPT !.report_lines = Append(@, Line("image_unreadable", i, 0))]
  ELSE
    LET extracted == Strip(Extract(f, per_file)) IN
    IF extracted # <<>> THEN
      LET rem == total - a.total_chars IN
      IF OverBudget(rem)
      THEN [a EXCEPT !.remaining = rem,
                     !.report_lines = Append(@, Line("skipped_over_budget", i, 0))]
      ELSE
        LET cut == CutToTotal(extracted, rem) IN
        [a EXCEPT !.remaining = rem,
                  !.total_chars = @ + Len(cut),
                  !.sample_blocks = Append(@, [origin |-> i, text |-> cut]),
                  !.report_lines = Append(@, Line("text_extracted", i, Len(cut)))]
    ELSE [a EXCEPT !.report_lines = Append(@, Line("extraction_empty", i, 0))]

\* the pasted text, after the loop
PastedBody(a, pst, total) ==
  IF Strip(pst) # <<>> THEN
    LET rem == total - a.total_chars
        txt == clamp_text(Strip(pst), rem) IN
    IF txt # <<>>
    THEN [a EXCEPT !.remaining = rem, !.paste_txt = txt,
                   !.sample_blocks = Append(@, [origin |-> "PASTED", text |-> txt]),
                   !.report_lines = Append(@, Line("pasted_extracted", 0, Len(txt))),
                   !.total_chars = @ + Len(txt)]
    ELSE [a EXCEPT !.remaining = rem, !.paste_txt = txt,
                   !.report_lines = Append(@, Line("pasted_skipped", 0, 0))]
  ELSE a

AttachmentsReport(lines) == IF lines # <<>> THEN lines ELSE <<NO_ATTACHMENTS>>

\* The prompt is a fixed template around the evidence blocks and the status
\* report; notes, constraints and language are held fixed.
build_prompt(blocks, report) == [samples |-> blocks, report |-> report]

\* the loop over uploads[1..n]
RECURSIVE Loop(_, _, _, _)
Loop(ups, n, per_file, total) ==
  IF n = 0 THEN EmptyPass
  ELSE UploadBody(Loop(ups, n - 1, per_file, total), ups[n], n, per_file, total)

\* the script down to the prompt
Assemble(ups, pst, per_file, total) ==
  PastedBody(Loop(ups, Len(ups), per_file, total), pst, total)

\* ------------------------------------------------------------ model gateway
RequestPartsNewestFirst(prompt, imgs) ==
  <<prompt>> \o [i \in 1..Len(imgs) |-> imgs[Len(imgs) + 1 - i]]

\* parts = [prompt_text] + the images that are not None
RequestParts(prompt, imgs) == <<prompt>> \o SelectSeq(imgs, LAMBDA x : x # None)

\* str(resp)
StrOf(resp) == "str(resp)"

\* getattr(resp, "text", None): a missing attribute gives the default, any
\* other error of the accessor propagates
getattr_text(resp) ==
  [raised |-> resp.text = RAISES,
   value |-> IF resp.text \in {ABSENT, RAISES} THEN None ELSE resp.text]

\* resp.candidates[0].content.parts[0].text, or str(resp) on any exception
first_part_text(resp) ==
  IF /\ resp.has_candidates
     /\ resp.candidates # <<>>
     /\ Head(resp.candidates).parts # <<>>
     /\ Head(Head(resp.candidates).parts).text # ABSENT
  THEN Head(Head(resp.candidates).parts).text
  ELSE StrOf(resp)

\* the response normalisation at the end of call_gemini_multimodal
response_text(resp) ==
  LET direct == getattr_text(resp) IN
  IF direct.raised THEN [raised |-> TRUE, text |-> ""]
  ELSE IF direct.value \notin {None, ""} THEN [raised |-> FALSE, text |-> direct.value]
  ELSE [raised |-> FALSE, text |-> first_part_text(resp)]

\* The call: without the client library it raises before any request is made;
\* otherwise one request is sent, the service raises or returns a response,
\* and the response is normalised to a text.
call_gemini_multimodal(prompt, imgs, out) ==
  IF out.kind = "no_client"
  THEN [sent |-> <<>>, resp |-> <<>>, raised |-> TRUE, text |-> ""]
  ELSE IF out.kind = "raises"
  THEN [sent |-> RequestParts(prompt, imgs), resp |-> <<>>, raised |-> TRUE,
        text |-> ""]
  ELSE LET n == response_text(out.resp[1]) IN
       [sent |-> RequestParts(prompt, imgs), resp |-> out.resp, raised |-> n.raised,
        text |-> n.text]

\* -------------------------------------------------------------- run handler
CredentialMissingUnstripped(key) == key = <<>>

CredentialMissing(key) == Strip(key) = <<>>

RunRecord(t, total, imgs, output) ==
  [ts |-> t, total_text_chars |-> total, images_count |-> Len(imgs), output |-> output]

InsertAtEnd(hist, rec) == Append(hist, rec)

\* history.insert(0, record)
Insert(hist, rec) == <<rec>> \o hist

SavesWhateverOutput(output, save) == save

SavesIgnoringToggle(output, save) == output # ""

\* the record is kept when there is an output and the toggle is on
Saves(output, save) == output # "" /\ save

\* the two download buttons
Exports == <<"json", "txt">>

HistoryView(hist) == Take(hist, HISTORY_VIEW)

\* What pressing (or not pressing) the run button leaves behind: the history,
\* the request sent, the number of requests, the response received, the
\* output of the call, the error shown, the output shown and the downloads
\* offered.
RunHandler(hist, prompt, imgs, total, r, key, save, out, t) ==
  LET quiet == [history |-> hist, request |-> <<>>, calls |-> 0, response |-> <<>>,
                output |-> "", error |-> None, shown |-> "", downloads |-> <<>>] IN
  IF ~r THEN quiet
  ELSE IF CredentialMissing(key) THEN [quiet EXCEPT !.error = "missing_key"]
  ELSE
    LET res == call_gemini_multimodal(prompt, imgs, out)
        output == IF res.raised THEN "" ELSE res.text
    IN [history |-> IF Saves(output, save)
                    THEN Insert(hist, RunRecord(t, total, imgs, output)) ELSE hist,
        request |-> res.sent,
        calls |-> IF res.sent # <<>> THEN 1 ELSE 0,
        response |-> res.resp,
        output |-> output,
        error |-> IF res.raised THEN "call_failed" ELSE None,
        shown |-> output,
        downloads |-> IF output # "" THEN Exports ELSE <<>>]

\* ------------------------------------------------------------------ state
PassState ==
  [sample_blocks |-> sample_blocks, images |-> images, report_lines |-> report_lines,
   total_chars |-> total_chars, remaining |-> remaining, paste_txt |-> paste_txt]

SetPass(a) ==
  /\ sample_blocks' = a.sample_blocks
  /\ images' = a.images
  /\ report_lines' = a.report_lines
  /\ total_chars' = a.total_chars
  /\ remaining' = a.remaining
  /\ paste_txt' = a.paste_txt

SetPage(h) ==
  /\ history' = h.history
  /\ request' = h.request
  /\ calls' = h.calls
  /\ response' = h.response
  /\ call_output' = h.output
  /\ error' = h.error
  /\ shown' = h.shown
  /\ downloads' = h.downloads
  /\ view' = HistoryView(h.history)

Init ==
  /\ uploads = <<>> /\ pasted = <<>>
  /\ max_chars_per_file = MaxCap /\ max_total_chars = MaxCap
  /\ run = FALSE /\ api_key = <<>> /\ save_history = TRUE
  /\ pc = "idle" /\ idx = 0
  /\ sample_blocks = <<>> /\ images = <<>> /\ report_lines = <<>>
  /\ total_chars = 0 /\ remaining = 0 /\ paste_txt = <<>>
  /\ attachments_report = <<>> /\ prompt_text = None
  /\ history = <<>> /\ now = 0
  /\ request = <<>> /\ calls = 0 /\ response = <<>> /\ call_output = ""
  /\ error = None /\ shown = "" /\ downloads = <<>>
  /\ view = <<>>

\* ------------------------------------------- the script, one step at a time
\* The script starts: the widgets are read and the variables are initialised.
\* Here a credential is present and the history toggle is off; the clock is
\* held still.
StartPass ==
  /\ pc = "idle"
  /\ \E ups \in SeqsUpTo(Files, MaxUploads), pst \in Texts, per \in Caps, tot \in Caps :
       /\ uploads' = ups /\ pasted' = pst
       /\ max_chars_per_file' = per /\ max_total_chars' = tot
  /\ \E r \in BOOLEAN : run' = r
  /\ api_key' = <<"k">> /\ save_history' = FALSE
  /\ SetPass(EmptyPass)
  /\ pc' = "loop" /\ idx' = 1
  /\ UNCHANGED <<attachments_report, prompt_text, history, now, page>>

\* one iteration of `for f in uploads`
UploadStep ==
  /\ pc = "loop" /\ idx <= Len(uploads)
  /\ SetPass(UploadBody(PassState, uploads[idx], idx, max_chars_per_file,
                        max_total_chars))
  /\ idx' = idx + 1
  /\ UNCHANGED <<widgets, buttons, pc, attachments_report, prompt_text, history,
                 now, page>>

\* after the loop: the pasted text, the status report and the prompt
PastedStep ==
  /\ pc = "loop" /\ idx > Len(uploads)
  /\ LET a == PastedBody(PassState, pasted, max_total_chars) IN
       /\ SetPass(a)
       /\ attachments_report' = AttachmentsReport(a.report_lines)
       /\ prompt_text' = build_prompt(a.sample_blocks,
                                      AttachmentsReport(a.report_lines))
  /\ pc' = "assembled"
  /\ UNCHANGED <<widgets, buttons, idx, history, now, page>>

\* the run handler and the history view, to the end of the script
RunStep ==
  /\ pc = "assembled"
  /\ \E out \in Outcomes :
       SetPage(RunHandler(history, prompt_text, images, total_chars, run, api_key,
                          save_history, out, now))
  /\ pc' = "rendered"
  /\ UNCHANGED <<widgets, buttons, idx, locals, now>>

\* The user interacts with the page: Streamlit discards the finished execution
\* (its variables and what it drew) and schedules the script again.  Only
\* st.session_state survives; the next execution reads the widgets afresh.
Interact ==
  /\ pc = "rendered"
  /\ uploads' = <<>> /\ pasted' = <<>>
  /\ max_chars_per_file' = MaxCap /\ max_total_chars' = MaxCap
  /\ run' = FALSE /\ api_key' = <<>> /\ save_history' = TRUE
  /\ pc' = "idle" /\ idx' = 0
  /\ SetPass(EmptyPass)
  /\ attachments_report' = <<>> /\ prompt_text' = None
  /\ request' = <<>> /\ calls' = 0 /\ response' = <<>> /\ call_output' = ""
  /\ error' = None /\ shown' = ""
  /\ downloads' = <<>> /\ view' = <<>>
  /\ UNCHANGED <<history, now>>

Next == StartPass \/ UploadStep \/ PastedStep \/ RunStep \/ Interact

Spec == Init /\ [][Next]_vars

\* --------------------------------------- the script, one execution per step
\* One whole execution of the script on the given widget values, against the
\* given outcome of the model service.  The clock has advanced since the last
\* execution.
Rerun(ups, pst, per, tot, r, key, save, out) ==
  /\ pc = "idle"
  /\ uploads' = ups /\ pasted' = pst
  /\ max_chars_per_file' = per /\ max_total_chars' = tot
  /\ run' = r /\ api_key' = key /\ save_history' = save
  /\ LET a == Assemble(ups, pst, per, tot)
         report == AttachmentsReport(a.report_lines)
         prompt == build_prompt(a.sample_blocks, report) IN
       /\ SetPass(a)
       /\ attachments_report' = report
       /\ prompt_text' = prompt
       /\ SetPage(RunHandler(history, prompt, a.images, a.total_chars, r, key, save,
                             out, now + 1))
  /\ now' = now + 1
  /\ pc' = "rendered" /\ idx' = Len(ups) + 1

\* sessions: at most one upload (an image or a text of full length), the
\* pasted text empty or one letter, the per-file cap at its largest value
SessionUploads ==
  {<<>>} \cup {<<f>> : f \in ImageFiles \cup {g \in PlainFiles : g.text = As(MaxLen)}}

SessionRerun ==
  /\ now < MaxRuns
  /\ \E ups \in SessionUploads, pst \in {<<>>, <<"a">>}, tot \in Caps, r \in BOOLEAN,
        key \in ApiKeys, save \in BOOLEAN, out \in Outcomes :
       Rerun(ups, pst, MaxCap, tot, r, key, save, out)

NextSession == SessionRerun \/ Interact

SpecSession == Init /\ [][NextSession]_vars

\* long sessions: no evidence, the button pressed with a credential
HistoryRerun ==
  /\ now < MaxHistoryRuns
  /\ \E save \in BOOLEAN, out \in Outcomes :
       Rerun(<<>>, <<>>, MaxCap, MaxCap, TRUE, <<"k">>, save, out)

NextHistory == HistoryRerun \/ Interact

SpecHistory == Init /\ [][NextHistory]_vars

\* every response shape: no upload or one image, the button pressed with a
\* credential
GatewayRerun ==
  /\ now < MaxRuns
  /\ \E ups \in {<<>>} \cup {<<f>> : f \in ImageFiles}, save \in BOOLEAN,
        out \in GatewayOutcomes :
       Rerun(ups, <<>>, MaxCap, MaxCap, TRUE, <<"k">>, save, out)

NextGateway == GatewayRerun \/ Interact

SpecGateway == Init /\ [][NextGateway]_vars

\* =================================================================== claims
Last(s) == s[Len(s)]

RECURSIVE SumLen(_)
SumLen(blocks) ==
  IF blocks = <<>> THEN 0 ELSE Len(Head(blocks).text) + SumLen(Tail(blocks))

\* the script is past the pasted text
Assembled == pc \in {"assembled", "rendered"}

\* the file of the loop iteration that has just run
JustLooped == pc = "loop" /\ idx > 1
PrevFile == uploads[idx - 1]
PrevExtracted == Strip(Extract(PrevFile, max_chars_per_file))

\* ---------------------------------------------------------------------- C1
\* C1: at every point of an assembly pass and at its end, the sum of the
\* lengths of the texts in the emitted evidence blocks, which is the running
\* total total_chars, is at most max_total_chars.
C1_TotalWithinCap ==
  /\ total_chars = SumLen(sample_blocks)
  /\ total_chars <= max_total_chars

\* ---------------------------------------------------------------------- C2
\* what C2 says of one call clamp_text(text, m) = res
ClampContract(text, m, res) ==
  /\ m <= 0 => res = <<>>
  /\ m > 0 => Len(res) <= m
  /\ (m > 0 /\ Len(Strip(text)) > m) => EndsWith(res, TRUNCATED)

\* C2: every result of clamp_text has length at most max_chars, ends with the
\* [TRUNCATED] marker when the trimmed text is longer than max_chars, and is
\* empty when max_chars <= 0.  The calls are the one on the pasted text (with
\* the remaining budget as max_chars) and the extractor's on each text file
\* (with the per-file cap).
C2_ClampWithinMax ==
  /\ (Assembled /\ Strip(pasted) # <<>>) =>
       ClampContract(Strip(pasted), remaining, paste_txt)
  /\ (JustLooped /\ ~IsImageExt(PrevFile) /\ PrevFile.decodes) =>
       ClampContract(PrevFile.text, max_chars_per_file,
                     Extract(PrevFile, max_chars_per_file))

\* ---------------------------------------------------------------------- C3
\* what C3 says of the block made from a text e that crosses the budget rem
CrossingCut(block, e, rem) ==
  /\ block.text = Take(e, rem) \o TRUNCATED_BY_TOTAL_LIMIT
  /\ ~EndsWith(block.text, TRUNCATED)

\* C3: the input that crosses the total cap (its text is longer than the
\* remaining budget, remaining > 0), be it an uploaded file or the pasted
\* text, is cut to the remaining budget and ends with the
\* [TRUNCATED_BY_TOTAL_LIMIT] marker, not with [TRUNCATED].
C3_CrossingInputTotalMarker ==
  /\ (JustLooped /\ ~IsImageExt(PrevFile) /\ PrevExtracted # <<>>
        /\ remaining > 0 /\ Len(PrevExtracted) > remaining) =>
       CrossingCut(Last(sample_blocks), PrevExtracted, remaining)
  /\ (Assembled /\ Strip(pasted) # <<>> /\ remaining > 0
        /\ Len(Strip(pasted)) > remaining) =>
       CrossingCut(Last(sample_blocks), Strip(pasted), remaining)

\* ---------------------------------------------------------------------- C4
\* the next loop iteration runs on a file that yields text
TextIteration ==
  /\ pc = "loop" /\ idx <= Len(uploads) /\ idx' = idx + 1
  /\ ~IsImageExt(uploads[idx])
  /\ Strip(Extract(uploads[idx], max_chars_per_file)) # <<>>

\* the step after the loop runs on a pasted text that is not blank
PastedIteration == pc = "loop" /\ pc' = "assembled" /\ Strip(pasted) # <<>>

CapReached == max_total_chars - total_chars <= 0

\* C4: once the running total has reached the total cap, every later input
\* that yields text (an upload or the pasted text) gets a skipped status line,
\* adds no evidence block and leaves the running total unchanged; the cap
\* stays reached for the rest of the pass.
C4_SkipAfterCap ==
  [][/\ (TextIteration /\ CapReached) =>
          /\ report_lines' = Append(report_lines, Line("skipped_over_budget", idx, 0))
          /\ sample_blocks' = sample_blocks
          /\ total_chars' = total_chars
     /\ (PastedIteration /\ CapReached) =>
          /\ report_lines' = Append(report_lines, Line("pasted_skipped", 0, 0))
          /\ sample_blocks' = sample_blocks
          /\ total_chars' = total_chars
     /\ (pc = "loop" /\ CapReached) => (max_total_chars' - total_chars' <= 0)]_vars

\* an upload and then the pasted text were both skipped in one pass
C4_Witness ==
  /\ pc = "assembled"
  /\ Len(report_lines) >= 3
  /\ report_lines[Len(report_lines) - 1].tag = "skipped_over_budget"
  /\ Last(report_lines).tag = "pasted_skipped"
  /\ total_chars = max_total_chars

\* ---------------------------------------------------------------------- C5
\* one whole execution of the script has just happened
Executed == pc = "idle" /\ pc' = "rendered"

\* C5: when the model call of a run fails, the history after the run is the
\* history before it, no output is shown, no export is offered, the history
\* view shows the old history, and at most one request was sent.
C5_FailureLeavesHistory ==
  [][(Executed /\ error' = "call_failed") =>
       /\ history' = history
       /\ shown' = ""
       /\ downloads' = <<>>
       /\ calls' <= 1
       /\ view' = SubSeq(history, 1, Min(Len(history), 10))]_vars

\* a request was sent and failed, with the toggle on and a record already kept
C5_Witness ==
  /\ pc = "rendered" /\ error = "call_failed" /\ calls = 1
  /\ save_history /\ history # <<>>

\* ---------------------------------------------------------------------- C6
\* C6: a run started with an empty or whitespace-only API key sends no
\* request and leaves the history as it was, whatever the inputs and settings.
C6_MissingKeyNoCall ==
  [][(Executed /\ run' /\ Strip(api_key') = <<>>) =>
       /\ calls' = 0
       /\ request' = <<>>
       /\ history' = history
       /\ shown' = "" /\ downloads' = <<>>]_vars

\* the button pressed with a whitespace-only key, evidence present, toggle on
C6_Witness ==
  /\ pc = "rendered" /\ run /\ api_key = <<" ">> /\ save_history
  /\ sample_blocks # <<>> /\ images # <<>>
  /\ history # <<>> /\ error = "missing_key"

\* ---------------------------------------------------------------------- C7
\* the call of this execution returned without an error
CallReturned == Executed /\ run' /\ Strip(api_key') # <<>> /\ calls' = 1 /\ error' = None

\* C7 as stated: every run whose model call completes successfully appends
\* exactly one RunRecord and offers exactly two exports.
C7_EverySuccessRecorded ==
  [][CallReturned =>
       /\ Len(history') = Len(history) + 1
       /\ Len(downloads') = 2]_vars

\* C7 amended: a run whose call returns a non-empty output offers exactly
\* two exports (one JSON, one plain text) and, with the history toggle on,
\* puts exactly one RunRecord of this run at the front of the history; with
\* the toggle off the history is unchanged.  A call that returns an empty
\* text shows nothing, records nothing and offers no export.
C7_SuccessRecordedWhenSaving ==
  [][/\ (CallReturned /\ shown' # "") =>
          /\ downloads' = <<"json", "txt">>
          /\ save_history' =>
               /\ Len(history') = Len(history) + 1
               /\ Tail(history') = history
               /\ Head(history') = [ts |-> now', total_text_chars |-> total_chars',
                                    images_count |-> Len(images'), output |-> shown']
          /\ ~save_history' => history' = history
     /\ (CallReturned /\ shown' = "") =>
          /\ history' = history
          /\ downloads' = <<>>]_vars

\* a second record was kept, of a run with text evidence and an image
C7_Witness ==
  /\ pc = "rendered" /\ calls = 1 /\ shown # "" /\ save_history
  /\ Len(history) = 2 /\ Len(downloads) = 2
  /\ Head(history).images_count = 1 /\ Head(history).total_text_chars > 0

\* ---------------------------------------------------------------------- C8
\* C8: the history is most-recent-first and append-only: a step leaves it as
\* it was or puts one newer record ahead of the unchanged older ones; and the
\* history view shows the first 10 records, or all of them when fewer.
C8_HistoryAppendOnly ==
  [][/\ \/ history' = history
        \/ /\ Len(history') = Len(history) + 1
           /\ Tail(history') = history
           /\ \A i \in 1..Len(history) : Head(history').ts > history[i].ts
     /\ pc' = "rendered" =>
          /\ Len(view') <= 10
          /\ Len(view') = Min(Len(history'), 10)
          /\ view' = SubSeq(history', 1, Len(view'))]_vars

\* more records than the view shows
C8_Witness ==
  /\ pc = "rendered" /\ Len(history) = 11 /\ Len(view) = 10
  /\ Head(view) = Head(history)

\* ---------------------------------------------------------------------- C9
UploadTags ==
  {"image_attached", "image_unreadable", "text_extracted", "skipped_over_budget",
   "extraction_empty"}

\* the status line of upload i is of the file's kind
LineOfUpload(i) ==
  LET f == uploads[i]
      l == report_lines[i] IN
  /\ l.file = i
  /\ l.tag \in UploadTags
  /\ l.tag = "image_attached" <=> (f.ext = "png" /\ f.decodes)
  /\ l.tag = "image_unreadable" <=> (f.ext = "png" /\ ~f.decodes)
  /\ l.tag = "extraction_empty" <=> (f.ext # "png" /\ (~f.decodes \/ Strip(f.text) = <<>>))

\* C9: a pass produces exactly one status line per upload, in upload order,
\* whatever the outcome, followed by exactly one line for the pasted text when
\* it is not blank; with no uploads and no pasted text the report is the single
\* "no attachments" line.
C9_OneLinePerInput ==
  /\ pc = "loop" =>
       /\ Len(report_lines) = idx - 1
       /\ \A i \in 1..(idx - 1) : LineOfUpload(i)
  /\ Assembled =>
       /\ Len(report_lines) = Len(uploads) + (IF Strip(pasted) # <<>> THEN 1 ELSE 0)
       /\ \A i \in 1..Len(uploads) : LineOfUpload(i)
       /\ Strip(pasted) # <<>> =>
            Last(report_lines).tag \in {"pasted_extracted", "pasted_skipped"}
       /\ (uploads = <<>> /\ Strip(pasted) = <<>>) =>
            attachments_report = <<NO_ATTACHMENTS>>
       /\ report_lines # <<>> => attachments_report = report_lines

\* an unreadable image, then a text file, then a pasted text
C9_Witness ==
  /\ pc = "assembled" /\ Len(report_lines) = 3
  /\ report_lines[1].tag = "image_unreadable"
  /\ report_lines[2].tag = "text_extracted"
  /\ report_lines[3].tag = "pasted_skipped"

\* --------------------------------------------------------------------- C10
RECURSIVE DecodedUpTo(_, _)
\* the decoded images among uploads[1..n], in upload order
DecodedUpTo(ups, n) ==
  IF n = 0 THEN <<>>
  ELSE IF ups[n].ext = "png" /\ ups[n].decodes
       THEN Append(DecodedUpTo(ups, n - 1), <<"image", n>>)
       ELSE DecodedUpTo(ups, n - 1)

\* C10: the request sent has the prompt as its first part, followed by
\* exactly the images that decoded, in upload order (1 + k parts); an image
\* that failed to decode is no part; at most one request is sent; and a loop
\* iteration on an image leaves the running total and the blocks unchanged.
C10_RequestParts ==
  [][/\ (pc' = "rendered" /\ calls' # 0) =>
          /\ calls' = 1
          /\ Head(request') = prompt_text'
          /\ Tail(request') = DecodedUpTo(uploads', Len(uploads'))
          /\ Len(request') = 1 + Len(images')
     /\ (pc = "loop" /\ idx <= Len(uploads) /\ idx' = idx + 1
           /\ uploads[idx].ext = "png") =>
          /\ total_chars' = total_chars
          /\ sample_blocks' = sample_blocks]_vars

\* an image that failed to decode before one that decoded: two parts
C10_Witness ==
  /\ pc = "rendered" /\ calls = 1 /\ Len(uploads) = 2
  /\ uploads[1].ext = "png" /\ ~uploads[1].decodes
  /\ uploads[2].ext = "png" /\ uploads[2].decodes
  /\ request = <<prompt_text, <<"image", 2>>>>

\* --------------------------------------------------------------------- C11
\* the gateway received a response from the service
Received == pc = "rendered" /\ response # <<>>

\* the response's direct text, when its accessor gives a non-empty text
HasDirectText(r) == r.text \notin {ABSENT, RAISES, None, ""}

\* the response has a first candidate with a first part with a text
HasFirstPartText(r) ==
  /\ r.has_candidates /\ r.candidates # <<>>
  /\ r.candidates[1].parts # <<>>
  /\ r.candidates[1].parts[1].text # ABSENT

\* C11: for every shape of response (text accessor giving a non-empty text;
\* absent, empty or failing; candidate list missing or empty) the gateway
\* returns a string and does not raise: the direct text first, else the first
\* candidate's first part's text, else the string rendering of the response.
C11_NormalizeNeverRaises ==
  Received =>
    LET r == response[1] IN
    /\ error = None
    /\ call_output # None
    /\ call_output = IF HasDirectText(r) THEN r.text
                ELSE IF HasFirstPartText(r) THEN r.candidates[1].parts[1].text
                ELSE "str(resp)"

====
